---- MODULE Spec2Model ----
(***************************************************************************)
(* Model of network-traffic-graphs: the log normaliser                     *)
(* (pie_chart.load_and_standardize_log), the directory loader              *)
(* (pie_chart.load_all_csvs), the protocol-share pie report                *)
(* (pie_chart.plot_protocol_pie, pie_chart.main) and the connections-over- *)
(* time line report (line_chart.plot_connections_over_time,                *)
(* line_chart.main).                                                       *)
(*                                                                         *)
(* Strings are sequences of one-character strings, so that strip, lower,   *)
(* split, replace and the numeric parse are computed, not assumed.         *)
(* A cell of a data frame is a tagged value: Str(s), Num(n), List(l), NaN  *)
(* or NaT.                                                                 *)
(***************************************************************************)
EXTENDS Integers, Sequences, FiniteSets, TLC

VARIABLES pc,        \* control location of the running entry point
          csv_path,  \* the file handed to load_and_standardize_log
          result,    \* what load_and_standardize_log returned
          csv_dir,   \* the directory of pie_chart.main / line_chart.main
          all_dfs,   \* load_all_csvs: frames collected so far
          df,        \* the data frame handed to the plotting function
          freq,      \* plot_connections_over_time: the bucket width
          series,    \* the series to plot (agg / connections)
          out_path,  \* the image path handed to the plotting function
          figure,    \* the matplotlib calls made so far
          log        \* messages printed

vars == <<pc, csv_path, result, csv_dir, all_dfs, df, freq, series, out_path, figure, log>>

----------------------------------------------------------------------------
(* Values *)

None == [none |-> TRUE]
Idle == [idle |-> TRUE]
NaN == [nan |-> TRUE]
NaT == [nat |-> TRUE]
Str(s) == [str |-> s]
Num(n) == [num |-> n]
List(l) == [list |-> l]
Stamp(t) == [ts |-> t]

IsStr(v) == DOMAIN v = {"str"}
IsNum(v) == DOMAIN v = {"num"}
IsStamp(v) == DOMAIN v = {"ts"}

----------------------------------------------------------------------------
(* String functions of the Python runtime *)

UpperChars == <<"A","B","C","D","E","F","G","H","I","J","K","L","M",
                "N","O","P","Q","R","S","T","U","V","W","X","Y","Z">>
LowerChars == <<"a","b","c","d","e","f","g","h","i","j","k","l","m",
                "n","o","p","q","r","s","t","u","v","w","x","y","z">>
Digits == <<"0","1","2","3","4","5","6","7","8","9">>
Whitespace == {" ", "\t"}

lower_char(c) ==
    IF \E i \in 1..Len(UpperChars) : UpperChars[i] = c
    THEN LowerChars[CHOOSE i \in 1..Len(UpperChars) : UpperChars[i] = c]
    ELSE c

lower(s) == [i \in 1..Len(s) |-> lower_char(s[i])]

RECURSIVE lstrip(_)
lstrip(s) == IF s /= <<>> /\ Head(s) \in Whitespace THEN lstrip(Tail(s)) ELSE s

RECURSIVE rstrip(_)
rstrip(s) ==
    IF s /= <<>> /\ s[Len(s)] \in Whitespace
    THEN rstrip(SubSeq(s, 1, Len(s) - 1))
    ELSE s

strip(s) == rstrip(lstrip(s))

\* s.split(sep) for a one-character separator: always at least one piece
RECURSIVE split(_, _)
split(s, sep) ==
    IF \E i \in 1..Len(s) : s[i] = sep
    THEN LET i == CHOOSE i \in 1..Len(s) :
                     s[i] = sep /\ \A j \in 1..(i - 1) : s[j] /= sep
         IN <<SubSeq(s, 1, i - 1)>> \o split(SubSeq(s, i + 1, Len(s)), sep)
    ELSE <<s>>

IsPrefix(p, s) == Len(p) <= Len(s) /\ SubSeq(s, 1, Len(p)) = p

\* s.replace(old, "") : every non-overlapping occurrence, left to right
RECURSIVE remove_all(_, _)
remove_all(s, old) ==
    IF s = <<>> THEN <<>>
    ELSE IF old /= <<>> /\ IsPrefix(old, s)
         THEN remove_all(SubSeq(s, Len(old) + 1, Len(s)), old)
         ELSE <<Head(s)>> \o remove_all(Tail(s), old)

DigitValue(c) == (CHOOSE i \in 1..Len(Digits) : Digits[i] = c) - 1
IsDigit(c) == \E i \in 1..Len(Digits) : Digits[i] = c

RECURSIVE parse_digits(_)
parse_digits(s) ==
    IF s = <<>> THEN 0
    ELSE 10 * parse_digits(SubSeq(s, 1, Len(s) - 1)) + DigitValue(s[Len(s)])

----------------------------------------------------------------------------
(* pandas element functions *)

\* pd.to_numeric(..., errors="coerce") on one value
to_numeric(v) ==
    IF IsNum(v) THEN v
    ELSE IF IsStr(v) /\ v.str /= <<>> /\ \A i \in 1..Len(v.str) : IsDigit(v.str[i])
         THEN Num(parse_digits(v.str))
         ELSE NaN

\* Series.fillna(d) on one value
fillna(v, d) == IF v = NaN \/ v = NaT THEN d ELSE v

\* pd.to_datetime(x, unit="s", errors="coerce") on one numeric value
to_datetime(v) == IF IsNum(v) THEN Stamp(v.num) ELSE IF IsStamp(v) THEN v ELSE NaT

----------------------------------------------------------------------------
(* Data frames: a set of column names and a sequence of rows; a row keeps  *)
(* its index label (explode repeats it) and one cell per column.           *)

Frame(columns, rows) == [columns |-> columns, rows |-> rows]

\* df[c] = values, row by row
assign(frame, c, values) ==
    Frame(frame.columns \cup {c},
          [i \in 1..Len(frame.rows) |->
              [index |-> frame.rows[i].index,
               cells |-> [k \in frame.columns \cup {c} |->
                            IF k = c THEN values[i]
                            ELSE frame.rows[i].cells[k]]]])

\* one value per row of the frame
each_row(frame) == 1..Len(frame.rows)

\* df[c] at row i
value_at(frame, i, c) == frame.rows[i].cells[c]

\* df[[...]] : keep the listed columns
select_columns(frame, keep) ==
    Frame(keep,
          [i \in 1..Len(frame.rows) |->
              [index |-> frame.rows[i].index,
               cells |-> [k \in keep |-> frame.rows[i].cells[k]]]])

\* df.explode(c): one row per element of the list in column c, index kept
RECURSIVE explode_rows(_, _)
explode_rows(rows, c) ==
    IF rows = <<>> THEN <<>>
    ELSE LET r == Head(rows)
             l == r.cells[c].list
         IN [j \in 1..Len(l) |->
                [index |-> r.index,
                 cells |-> [r.cells EXCEPT ![c] = Str(l[j])]]]
            \o explode_rows(Tail(rows), c)

explode(frame, c) == Frame(frame.columns, explode_rows(frame.rows, c))

\* DataFrame.empty
empty(frame) == frame.rows = <<>>

----------------------------------------------------------------------------
(* pie_chart.load_and_standardize_log *)

DotLogCsv == <<".","l","o","g",".","c","s","v">>
conn_log_csv == <<"c","o","n","n">> \o DotLogCsv
files_log_csv == <<"f","i","l","e","s">> \o DotLogCsv

unknown_service == <<"u","n","k","n","o","w","n","_","s","e","r","v","i","c","e">>
unknown_protocol == <<"u","n","k","n","o","w","n","_","p","r","o","t","o","c","o","l">>
unknown_log_type == <<"u","n","k","n","o","w","n","_","l","o","g","_","t","y","p","e">>
unknown_transport == <<"u","n","k","n","o","w","n","_","t","r","a","n","s","p","o","r","t">>

na_values == { <<"-">>, <<"(","e","m","p","t","y",")">>, <<>> }

StandardColumns == {"datetime", "unified_protocol", "total_bytes", "event_count"}

\* pd.read_csv(csv_path, header=0, na_values=[...]): cells are text, the
\* na_values become NaN; rows are indexed 0, 1, ...
read_csv(path) ==
    Frame(path.columns,
          [i \in 1..Len(path.rows) |->
              [index |-> i - 1,
               cells |-> [k \in path.columns |->
                            IF path.rows[i][k] \in na_values THEN NaN
                            ELSE Str(path.rows[i][k])]]])

\* the lambda of line 35, without the strip()
service_list_unstripped(x) ==
    LET parts == split(x.str, ",")
    IN List([j \in 1..Len(parts) |-> lower(parts[j])])

\* the lambda of line 35: [s.strip().lower() for s in str(x).split(',')]
service_list(x) ==
    LET parts == split(x.str, ",")
    IN List([j \in 1..Len(parts) |-> lower(strip(parts[j]))])

\* lines 22-27
datetime_step(frame) ==
    IF "ts" \in frame.columns
    THEN LET numeric == assign(frame, "ts",
                            [i \in each_row(frame) |-> to_numeric(value_at(frame, i, "ts"))])
         IN assign(numeric, "datetime",
                [i \in each_row(numeric) |-> to_datetime(value_at(numeric, i, "ts"))])
    ELSE assign(frame, "datetime", [i \in each_row(frame) |-> NaT])

\* lines 32-37
service_rule(frame) ==
    LET filled == assign(frame, "unified_protocol",
                      [i \in each_row(frame) |->
                          fillna(value_at(frame, i, "service"), Str(unknown_service))])
        listed == assign(filled, "unified_protocol",
                      [i \in each_row(filled) |->
                          service_list(value_at(filled, i, "unified_protocol"))])
    IN explode(listed, "unified_protocol")

\* line 40
proto_rule(frame) ==
    assign(frame, "unified_protocol",
        [i \in each_row(frame) |->
            Str(lower(fillna(value_at(frame, i, "proto"), Str(unknown_protocol)).str))])

\* lines 29-45 with the proto rule tried before the service rule
protocol_step_proto_first(frame, file_name, log_type) ==
    IF "proto" \in frame.columns
    THEN proto_rule(frame)
    ELSE IF file_name = conn_log_csv /\ "service" \in frame.columns
    THEN service_rule(frame)
    ELSE IF log_type /= <<>>
    THEN assign(frame, "unified_protocol", [i \in each_row(frame) |-> Str(lower(log_type))])
    ELSE assign(frame, "unified_protocol", [i \in each_row(frame) |-> Str(unknown_log_type)])

\* lines 29-45
protocol_step(frame, file_name, log_type) ==
    IF file_name = conn_log_csv /\ "service" \in frame.columns
    THEN service_rule(frame)
    ELSE IF "proto" \in frame.columns
    THEN proto_rule(frame)
    ELSE IF log_type /= <<>>
    THEN assign(frame, "unified_protocol", [i \in each_row(frame) |-> Str(lower(log_type))])
    ELSE assign(frame, "unified_protocol", [i \in each_row(frame) |-> Str(unknown_log_type)])

\* lines 51-53
orig_resp_rule(frame) ==
    LET o == assign(frame, "orig_bytes",
                 [i \in each_row(frame) |-> to_numeric(value_at(frame, i, "orig_bytes"))])
        n == assign(o, "resp_bytes",
                 [i \in each_row(o) |-> to_numeric(value_at(o, i, "resp_bytes"))])
    IN assign(n, "total_bytes",
           [i \in each_row(n) |-> Num(fillna(value_at(n, i, "orig_bytes"), Num(0)).num
                          + fillna(value_at(n, i, "resp_bytes"), Num(0)).num)])

\* line 55
body_len_rule(frame) ==
    assign(frame, "total_bytes",
        [i \in each_row(frame) |-> fillna(to_numeric(value_at(frame, i, "response_body_len")), Num(0))])

\* line 58
literal_rule(frame) ==
    assign(frame, "total_bytes",
        [i \in each_row(frame) |-> fillna(to_numeric(value_at(frame, i, "total_bytes")), Num(0))])

\* lines 47-58 with the response_body_len rule tried first
bytes_step_body_len_first(frame0, file_name) ==
    LET frame == assign(frame0, "total_bytes", [i \in each_row(frame0) |-> Num(0)])
    IN IF "response_body_len" \in frame.columns
       THEN body_len_rule(frame)
       ELSE IF {"orig_bytes", "resp_bytes"} \subseteq frame.columns
       THEN orig_resp_rule(frame)
       ELSE IF file_name = files_log_csv /\ "total_bytes" \in frame.columns
       THEN literal_rule(frame)
       ELSE frame

\* lines 47-58; line 48 assigns the column total_bytes before any rule reads it
bytes_step(frame0, file_name) ==
    LET frame == assign(frame0, "total_bytes", [i \in each_row(frame0) |-> Num(0)])
    IN IF {"orig_bytes", "resp_bytes"} \subseteq frame.columns
       THEN orig_resp_rule(frame)
       ELSE IF "response_body_len" \in frame.columns
       THEN body_len_rule(frame)
       ELSE IF file_name = files_log_csv /\ "total_bytes" \in frame.columns
       THEN literal_rule(frame)
       ELSE frame

\* lines 8-65; a file that cannot be read or parsed raises inside the try
load_and_standardize_log(path) ==
    LET file_name == path.name
        log_type == remove_all(file_name, DotLogCsv)
    IN IF ~path.readable THEN None
       ELSE LET raw == read_csv(path)
                counted == assign(raw, "event_count", [i \in each_row(raw) |-> Num(1)])
                dated == datetime_step(counted)
                labelled == protocol_step(dated, file_name, log_type)
                sized == bytes_step(labelled, file_name)
            IN select_columns(sized, StandardColumns)

----------------------------------------------------------------------------
(* pie_chart.load_all_csvs *)

RECURSIVE concat_rows(_)
concat_rows(frames) ==
    IF frames = <<>> THEN <<>>
    ELSE Head(frames).rows \o concat_rows(Tail(frames))

\* pd.concat(all_dfs, ignore_index=True): rows in list order, index renumbered
concat(frames) ==
    LET rows == concat_rows(frames)
    IN Frame(UNION { frames[i].columns : i \in 1..Len(frames) },
             [i \in 1..Len(rows) |-> [index |-> i - 1, cells |-> rows[i].cells]])

\* lines 78-86: what load_all_csvs returns for the frames it collected
combine(frames) ==
    IF frames = <<>> THEN Frame(StandardColumns, <<>>)
    ELSE LET combined_df == concat(frames)
             dated == assign(combined_df, "datetime",
                          [i \in each_row(combined_df) |-> to_datetime(value_at(combined_df, i, "datetime"))])
         IN assign(dated, "total_bytes",
                [i \in each_row(dated) |-> fillna(to_numeric(value_at(dated, i, "total_bytes")), Num(0))])

\* lines 75-76 with the frame put in front of the list
collect_prepend(frames, loaded) == IF loaded /= None THEN <<loaded>> \o frames ELSE frames

\* lines 75-76: a frame is kept unless the normaliser returned None
collect(frames, loaded) == IF loaded /= None THEN Append(frames, loaded) ELSE frames

----------------------------------------------------------------------------
(* pie_chart.plot_protocol_pie *)

tcp == <<"t","c","p">>
udp == <<"u","d","p">>
icmp == <<"i","c","m","p">>
arp == <<"a","r","p">>
other == <<"o","t","h","e","r">>

\* line 92 without 'arp'
transport_protocols_without_arp ==
    { Str(tcp), Str(udp), Str(unknown_transport), Str(icmp),
      Str(unknown_protocol), Str(unknown_service), Str(unknown_log_type) }

\* line 92
transport_protocols_to_exclude ==
    { Str(tcp), Str(udp), Str(unknown_transport), Str(icmp), Str(arp),
      Str(unknown_protocol), Str(unknown_service), Str(unknown_log_type) }

\* line 102
top_n == 8

RECURSIVE sum_column(_, _)
sum_column(rows, c) ==
    IF rows = <<>> THEN 0
    ELSE Head(rows).cells[c].num + sum_column(Tail(rows), c)

\* line 95: df[~df["unified_protocol"].isin(...)]
filter_out(frame, labels) ==
    Frame(frame.columns,
          SelectSeq(frame.rows, LAMBDA r : r.cells["unified_protocol"] \notin labels))

\* groupby("unified_protocol", dropna=False)["event_count"].sum(): one entry per label
groupby_sum(frame) ==
    { [label |-> l,
       value |-> sum_column(SelectSeq(frame.rows,
                                LAMBDA r : r.cells["unified_protocol"] = l),
                            "event_count")] :
      l \in { value_at(frame, i, "unified_protocol") : i \in 1..Len(frame.rows) } }

\* sort_values(ascending=False): every order with non-increasing values; the
\* order among equal values depends on the sort the build uses
RECURSIVE sort_values_descending(_)
sort_values_descending(entries) ==
    IF entries = {} THEN { <<>> }
    ELSE UNION { { <<e>> \o rest : rest \in sort_values_descending(entries \ {e}) } :
                 e \in { e \in entries : \A f \in entries : f.value <= e.value } }

RECURSIVE sum_values(_)
sum_values(entries) ==
    IF entries = <<>> THEN 0 ELSE Head(entries).value + sum_values(Tail(entries))

\* lines 103-106 without the "other" entry
keep_top_drop_rest(agg) ==
    IF Len(agg) > top_n THEN SubSeq(agg, 1, top_n) ELSE agg

\* lines 103-106
keep_top(agg) ==
    IF Len(agg) > top_n
    THEN SubSeq(agg, 1, top_n)
         \o << [label |-> Str(other),
                value |-> sum_values(SubSeq(agg, top_n + 1, Len(agg)))] >>
    ELSE agg

----------------------------------------------------------------------------
(* Input files.  A file is its name, whether pandas can read and parse it, *)
(* the recognised columns of its header, and its rows (recognised cells    *)
(* only: every other column is dropped by line 61).                        *)

MaxRows == 2
MaxByteRows == 1

dns_log_csv == <<"D","N","S">> \o DotLogCsv
FileNames == { conn_log_csv, files_log_csv, dns_log_csv, DotLogCsv }

File(name, readable, columns, rows) ==
    [name |-> name, readable |-> readable, columns |-> columns, rows |-> rows]

\* cells of the files that exercise the protocol rules
ProtocolCells ==
    [ts |-> { <<"-">>, <<"3","5">> },
     service |-> { <<"-">>, <<"D","n","s">>,
                   <<"s","s","l",","," ","H","T","T","P"," ">>,
                   <<"s","m","b",",">> },
     proto |-> { <<"-">>, <<"T","C","P">>, <<"u","d","p">> }]

\* cells of the files that exercise the byte rules
ByteCells ==
    [service |-> { <<"f","t","p",",","s","s","h">> },
     orig_bytes |-> { <<"-">>, <<"1","0","0">>, <<"x">> },
     resp_bytes |-> { <<"-">>, <<"7">>, <<"x">> },
     response_body_len |-> { <<>>, <<"3","0">> },
     total_bytes |-> { <<"(","e","m","p","t","y",")">>, <<"5","0","0">>, <<"x">> }]

RECURSIVE RowsOver(_, _)
RowsOver(columns, cells) ==
    IF columns = {} THEN { <<>> }
    ELSE LET c == CHOOSE c \in columns : TRUE
         IN { (c :> v) @@ r : v \in cells[c], r \in RowsOver(columns \ {c}, cells) }

ProtocolColumns == {"ts", "service", "proto"}
ByteColumns == {"service", "orig_bytes", "resp_bytes", "response_body_len", "total_bytes"}

----------------------------------------------------------------------------
(* Specification of the normaliser: a log exporter writes a file row by    *)
(* row, then load_and_standardize_log is called on it once.                *)

InitLoad ==
    /\ pc = "export"
    /\ \E name \in FileNames, readable \in BOOLEAN,
          columns \in (SUBSET ProtocolColumns) \cup (SUBSET ByteColumns) :
          /\ ~readable => columns = {}
          /\ csv_path = File(name, readable, columns, <<>>)
    /\ result = Idle
    /\ csv_dir = Idle
    /\ all_dfs = <<>>
    /\ df = Idle
    /\ freq = Idle
    /\ series = Idle
    /\ out_path = Idle
    /\ figure = {}
    /\ log = <<>>

WriteProtocolRow ==
    /\ pc = "export"
    /\ csv_path.readable
    /\ csv_path.columns \subseteq ProtocolColumns
    /\ Len(csv_path.rows) < MaxRows
    /\ \E row \in RowsOver(csv_path.columns, ProtocolCells) :
          csv_path' = [csv_path EXCEPT !.rows = Append(@, row)]
    /\ UNCHANGED <<pc, result, csv_dir, all_dfs, df, freq, series, out_path, figure, log>>

WriteByteRow ==
    /\ pc = "export"
    /\ csv_path.readable
    /\ csv_path.columns \subseteq ByteColumns
    /\ Len(csv_path.rows) < MaxByteRows
    /\ \E row \in RowsOver(csv_path.columns, ByteCells) :
          csv_path' = [csv_path EXCEPT !.rows = Append(@, row)]
    /\ UNCHANGED <<pc, result, csv_dir, all_dfs, df, freq, series, out_path, figure, log>>

CallLoad ==
    /\ pc = "export"
    /\ result' = load_and_standardize_log(csv_path)
    /\ log' = IF result' = None THEN Append(log, "Error processing") ELSE log
    /\ pc' = "returned"
    /\ UNCHANGED <<csv_path, csv_dir, all_dfs, df, freq, series, out_path, figure>>

NextLoad == WriteProtocolRow \/ WriteByteRow \/ CallLoad

Spec == InitLoad /\ [][NextLoad]_vars

----------------------------------------------------------------------------
(* plot_protocol_pie, step by step.  matplotlib and the file system are the *)
(* environment: a rendering call or savefig either returns or raises, and   *)
(* nothing in plot_protocol_pie or pie_chart.main catches what they raise.  *)

\* lines 92-106
PieAggregate ==
    /\ pc = "pie_call"
    /\ \E agg \in sort_values_descending(
                      groupby_sum(filter_out(df, transport_protocols_to_exclude))) :
          series' = keep_top(agg)
    /\ pc' = "pie_render"
    /\ UNCHANGED <<csv_path, result, csv_dir, all_dfs, df, freq, out_path, figure, log>>

\* lines 108-112
PieRender ==
    /\ pc = "pie_render"
    /\ figure' = figure \cup {"figure", "pie"}
    /\ pc' = "pie_save"
    /\ UNCHANGED <<csv_path, result, csv_dir, all_dfs, df, freq, series, out_path, log>>

\* lines 108-112, a call raising
PieRenderFails ==
    /\ pc = "pie_render"
    /\ figure' = figure \cup {"figure"}
    /\ pc' = "raised"
    /\ UNCHANGED <<csv_path, result, csv_dir, all_dfs, df, freq, series, out_path, log>>

\* lines 113-114
PieSave ==
    /\ pc = "pie_save"
    /\ figure' = IF out_path /= None THEN figure \cup {"savefig"} ELSE figure
    /\ pc' = "pie_show"
    /\ UNCHANGED <<csv_path, result, csv_dir, all_dfs, df, freq, series, out_path, log>>

\* line 114, savefig raising
PieSaveFails ==
    /\ pc = "pie_save"
    /\ out_path /= None
    /\ pc' = "raised"
    /\ UNCHANGED <<csv_path, result, csv_dir, all_dfs, df, freq, series, out_path, figure, log>>

\* line 115
PieShow ==
    /\ pc = "pie_show"
    /\ figure' = figure \cup {"show"}
    /\ pc' = "done"
    /\ UNCHANGED <<csv_path, result, csv_dir, all_dfs, df, freq, series, out_path, log>>

PlotProtocolPie ==
    PieAggregate \/ PieRender \/ PieRenderFails \/ PieSave \/ PieSaveFails \/ PieShow

pie_png == Str(<<"p","i","e",".","p","n","g">>)

----------------------------------------------------------------------------
(* Specification of plot_protocol_pie on combined datasets: every record   *)
(* has event_count 1, as the normaliser produces them.                     *)

NumApp == 10
NumOptional == 4
Dominant == 12

AppProtocols ==
    << <<"d","n","s">>, <<"h","t","t","p">>, <<"s","s","l">>, <<"s","s","h">>,
       <<"s","m","b">>, <<"f","t","p">>, <<"n","t","p">>, <<"d","h","c","p">>,
       <<"k","r","b">>, <<"r","d","p">>, <<"s","n","m","p">>, <<"l","d","a","p">> >>

\* records of application protocol i when it is present: 1, 1, 2, 2, 3, 4, 5, ...
BaseCount(i) == IF i <= 2 THEN 1 ELSE IF i <= 4 THEN 2 ELSE i - 2

\* the protocols of a dataset: any of the first NumOptional (the tied ones),
\* and a run of the ones after them
PresentSets ==
    { some \cup ((NumOptional + 1)..last) :
        some \in SUBSET (1..NumOptional), last \in NumOptional..NumApp }

Record(label) ==
    [index |-> 0,
     cells |-> [datetime |-> NaT, unified_protocol |-> label,
                total_bytes |-> Num(0), event_count |-> Num(1)]]

RECURSIVE RecordsFor(_)
RecordsFor(counts) ==
    IF counts = <<>> THEN <<>>
    ELSE [j \in 1..Head(counts).n |-> Record(Head(counts).label)]
         \o RecordsFor(Tail(counts))

Dataset(counts) ==
    LET rows == RecordsFor(counts)
    IN Frame(StandardColumns,
             [i \in 1..Len(rows) |-> [rows[i] EXCEPT !.index = i - 1]])

\* the excluded labels of a dataset: none, one of them dominating, or all of them
ExcludedMixes ==
    { <<>> }
    \cup { << [label |-> l, n |-> Dominant] >> : l \in transport_protocols_to_exclude }
    \cup { << [label |-> Str(tcp), n |-> 1], [label |-> Str(udp), n |-> 1],
              [label |-> Str(icmp), n |-> 1], [label |-> Str(arp), n |-> 1],
              [label |-> Str(unknown_transport), n |-> 1],
              [label |-> Str(unknown_protocol), n |-> 1],
              [label |-> Str(unknown_service), n |-> 1],
              [label |-> Str(unknown_log_type), n |-> 1] >> }

AppCounts(present) ==
    [i \in 1..NumApp |->
        [label |-> Str(AppProtocols[i]),
         n |-> IF i \in present THEN BaseCount(i) ELSE 0]]

InitPie ==
    /\ pc = "pie_call"
    /\ \E present \in PresentSets, mix \in ExcludedMixes :
          df = Dataset(mix \o AppCounts(present))
    /\ out_path \in {None, pie_png}
    /\ csv_path = Idle
    /\ result = Idle
    /\ csv_dir = Idle
    /\ all_dfs = <<>>
    /\ freq = Idle
    /\ series = Idle
    /\ figure = {}
    /\ log = <<>>

SpecPie == InitPie /\ [][PlotProtocolPie]_vars

----------------------------------------------------------------------------
(* Specification of pie_chart.main: load_all_csvs over a directory, mkdir, *)
(* plot_protocol_pie.                                                      *)

MaxFiles == 3

SampleFiles ==
    { File(conn_log_csv, TRUE, {"ts", "service"},
           << [ts |-> <<"3","5">>, service |-> <<"s","s","l",","," ","H","T","T","P"," ">>],
              [ts |-> <<"-">>, service |-> <<"-">>] >>),
      File(dns_log_csv, TRUE, {"ts"}, << [ts |-> <<"5">>], [ts |-> <<"x">>] >>),
      File(<<"n","t","p">> \o DotLogCsv, TRUE, {"proto", "response_body_len"},
           << [proto |-> <<"U","D","P">>, response_body_len |-> <<"3","0">>] >>),
      File(files_log_csv, FALSE, {}, <<>>),
      File(<<"h","t","t","p">> \o DotLogCsv, FALSE, {}, <<>>) }

\* the *.csv files of a directory in the order glob yields them
Directories ==
    UNION { { files \in [1..n -> SampleFiles] :
                  \A i, j \in 1..n : i /= j => files[i].name /= files[j].name } :
            n \in 0..MaxFiles }

InitPieMain ==
    /\ pc = "load_all"
    /\ \E exists \in BOOLEAN, files \in Directories :
          /\ ~exists => files = <<>>
          /\ csv_dir = [exists |-> exists, files |-> files, next |-> 1]
    /\ out_path = pie_png
    /\ csv_path = Idle
    /\ result = Idle
    /\ all_dfs = <<>>
    /\ df = Idle
    /\ freq = Idle
    /\ series = Idle
    /\ figure = {}
    /\ log = <<>>

\* lines 73-76: one turn of the loop over csv_dir_path.glob("*.csv")
LoadNextFile ==
    /\ pc = "load_all"
    /\ csv_dir.next <= Len(csv_dir.files)
    /\ csv_path' = csv_dir.files[csv_dir.next]
    /\ result' = load_and_standardize_log(csv_path')
    /\ log' = IF result' = None THEN Append(log, "Error processing") ELSE log
    /\ all_dfs' = collect(all_dfs, result')
    /\ csv_dir' = [csv_dir EXCEPT !.next = @ + 1]
    /\ UNCHANGED <<pc, df, freq, series, out_path, figure>>

\* lines 78-86 and line 120: load_all_csvs returns combined_df
ReturnCombined ==
    /\ pc = "load_all"
    /\ csv_dir.next > Len(csv_dir.files)
    /\ df' = combine(all_dfs)
    /\ pc' = "mkdir"
    /\ UNCHANGED <<csv_path, result, csv_dir, all_dfs, freq, series, out_path, figure, log>>

\* lines 123-127: out_dir.mkdir(exist_ok=True), then the call of plot_protocol_pie
MakeOutputDir ==
    /\ pc = "mkdir"
    /\ pc' = "pie_call"
    /\ UNCHANGED <<csv_path, result, csv_dir, all_dfs, df, freq, series, out_path, figure, log>>

NextPieMain == LoadNextFile \/ ReturnCombined \/ MakeOutputDir \/ PlotProtocolPie

SpecPieMain == InitPieMain /\ [][NextPieMain]_vars

----------------------------------------------------------------------------
(* line_chart.plot_connections_over_time *)

\* seconds in a day: resample anchors its buckets at midnight of the first day
Day == 86400

\* pandas' to_offset for the frequencies used here: "<n>S" is n seconds, n >= 1;
\* anything else raises inside resample
is_seconds(f) ==
    /\ Len(f) >= 2
    /\ f[Len(f)] = "S"
    /\ \A i \in 1..(Len(f) - 1) : IsDigit(f[i])
    /\ parse_digits(SubSeq(f, 1, Len(f) - 1)) >= 1

seconds(f) == parse_digits(SubSeq(f, 1, Len(f) - 1))

\* lines 11-12: rows whose datetime is a timestamp
valid_rows(frame) ==
    LET dated == assign(frame, "datetime",
                     [i \in each_row(frame) |-> to_datetime(value_at(frame, i, "datetime"))])
    IN Frame(dated.columns,
             SelectSeq(dated.rows, LAMBDA r : r.cells["datetime"] /= NaT))

\* line 17: set_index("datetime").sort_index(): every ascending order of the rows
RECURSIVE sort_index(_)
sort_index(rows) ==
    IF rows = <<>> THEN { <<>> }
    ELSE UNION { { <<rows[i]>> \o rest :
                     rest \in sort_index(SubSeq(rows, 1, i - 1)
                                         \o SubSeq(rows, i + 1, Len(rows))) } :
                 i \in { i \in 1..Len(rows) :
                           \A j \in 1..Len(rows) :
                               rows[i].cells["datetime"].ts <= rows[j].cells["datetime"].ts } }

\* the origin of the buckets when it is the epoch instead of the first day
bucket_origin_epoch(first) == 0

\* resample's default origin "start_day": midnight of the first timestamp's day
bucket_origin(first) == first - (first % Day)

floor_to(t, origin, w) == origin + ((t - origin) \div w) * w

\* line 21: series_df["event_count"].resample(freq).sum() for a width of w seconds:
\* left-closed, left-labelled buckets from the one holding the first timestamp
\* to the one holding the last, empty buckets summing to 0
resample_sum(sorted, w) ==
    LET first == sorted[1].cells["datetime"].ts
        last == sorted[Len(sorted)].cells["datetime"].ts
        origin == bucket_origin(first)
        start == floor_to(first, origin, w)
        count == ((floor_to(last, origin, w) - start) \div w) + 1
    IN [k \in 1..count |->
           [label |-> Stamp(start + (k - 1) * w),
            value |-> sum_column(
                          SelectSeq(sorted,
                              LAMBDA r : /\ start + (k - 1) * w <= r.cells["datetime"].ts
                                         /\ r.cells["datetime"].ts < start + k * w),
                          "event_count")]]

\* lines 10-15
LineValidate ==
    /\ pc = "line_call"
    /\ df' = valid_rows(df)
    /\ IF empty(df')
       THEN /\ log' = Append(log, "No valid timestamps found for line chart.")
            /\ pc' = "done"
       ELSE /\ log' = log
            /\ pc' = "line_resample"
    /\ UNCHANGED <<csv_path, result, csv_dir, all_dfs, freq, series, out_path, figure>>

\* lines 17-28
LineResample ==
    /\ pc = "line_resample"
    /\ IF is_seconds(freq)
       THEN \E sorted \in sort_index(df.rows) :
               /\ series' = resample_sum(sorted, seconds(freq))
               /\ IF series' = <<>>
                  THEN /\ log' = Append(log, "No data after resampling for the selected frequency.")
                       /\ pc' = "done"
                  ELSE /\ log' = log
                       /\ pc' = "line_render"
       ELSE /\ log' = Append(log, "Resample failed")
            /\ pc' = "done"
            /\ UNCHANGED series
    /\ UNCHANGED <<csv_path, result, csv_dir, all_dfs, df, freq, out_path, figure>>

\* lines 30-36
LineRender ==
    /\ pc = "line_render"
    /\ figure' = figure \cup {"figure", "plot"}
    /\ pc' = "line_save"
    /\ UNCHANGED <<csv_path, result, csv_dir, all_dfs, df, freq, series, out_path, log>>

\* lines 30-36, a call raising: nothing in plot_connections_over_time or main catches it
LineRenderFails ==
    /\ pc = "line_render"
    /\ figure' = figure \cup {"figure"}
    /\ pc' = "raised"
    /\ UNCHANGED <<csv_path, result, csv_dir, all_dfs, df, freq, series, out_path, log>>

\* lines 37-38
LineSave ==
    /\ pc = "line_save"
    /\ figure' = IF out_path /= None THEN figure \cup {"savefig"} ELSE figure
    /\ pc' = "line_show"
    /\ UNCHANGED <<csv_path, result, csv_dir, all_dfs, df, freq, series, out_path, log>>

\* line 38, savefig raising
LineSaveFails ==
    /\ pc = "line_save"
    /\ out_path /= None
    /\ pc' = "raised"
    /\ UNCHANGED <<csv_path, result, csv_dir, all_dfs, df, freq, series, out_path, figure, log>>

\* line 39
LineShow ==
    /\ pc = "line_show"
    /\ figure' = figure \cup {"show"}
    /\ pc' = "done"
    /\ UNCHANGED <<csv_path, result, csv_dir, all_dfs, df, freq, series, out_path, log>>

PlotConnectionsOverTime ==
    LineValidate \/ LineResample \/ LineRender \/ LineRenderFails
        \/ LineSave \/ LineSaveFails \/ LineShow

line_png == Str(<<"l","i","n","e",".","p","n","g">>)

----------------------------------------------------------------------------
(* Specification of plot_connections_over_time on normalised datasets, for *)
(* several bucket widths.  A capture starts at StartTimes and its events   *)
(* fall EventOffsets seconds later.                                        *)

MaxEvents == 3

EventOffsets == {5, 20, 35, 95}
StartTimes == {0, Day - 40, Day}
Frequencies == { <<"3","0","S">>, <<"7","S">>, <<"b","o","g","u","s">> }

Event(datetime) ==
    [index |-> 0,
     cells |-> [datetime |-> datetime, unified_protocol |-> Str(<<"d","n","s">>),
                total_bytes |-> Num(0), event_count |-> Num(1)]]

InitLine ==
    /\ pc = "line_call"
    /\ \E start \in StartTimes, n \in 0..MaxEvents :
          \E times \in [1..n -> {NaT} \cup { Stamp(start + o) : o \in EventOffsets }] :
              df = Frame(StandardColumns,
                         [i \in 1..n |-> [Event(times[i]) EXCEPT !.index = i - 1]])
    /\ freq \in Frequencies
    /\ out_path \in {None, line_png}
    /\ csv_path = Idle
    /\ result = Idle
    /\ csv_dir = Idle
    /\ all_dfs = <<>>
    /\ series = Idle
    /\ figure = {}
    /\ log = <<>>

SpecLine == InitLine /\ [][PlotConnectionsOverTime]_vars

----------------------------------------------------------------------------
(* Specification of line_chart.main: the csv directory holds conn.log.csv  *)
(* or not; the file is normalised and plotted in 30-second buckets.        *)

ConnCells ==
    [ts |-> { <<"-">>, <<"5">>, <<"3","5">>, <<"x">> },
     service |-> { <<"-">>, <<"d","n","s">>, <<"s","s","l",",","s","m","b">> }]

ConnLogs ==
    UNION { { File(conn_log_csv, TRUE, columns, rows) :
                rows \in { <<>> }
                          \cup { <<r>> : r \in RowsOver(columns, ConnCells) }
                          \cup { <<r, q>> : r, q \in RowsOver(columns, ConnCells) } } :
            columns \in SUBSET {"ts", "service"} }
    \cup { File(conn_log_csv, FALSE, {}, <<>>) }

InitLineMain ==
    /\ pc = "line_main"
    /\ \E exists \in BOOLEAN, conn \in ConnLogs :
          csv_dir = [exists |-> exists,
                     files |-> IF exists THEN <<conn>> ELSE <<>>,
                     next |-> 1]
    /\ freq = Idle
    /\ out_path = Idle
    /\ csv_path = Idle
    /\ result = Idle
    /\ all_dfs = <<>>
    /\ df = Idle
    /\ series = Idle
    /\ figure = {}
    /\ log = <<>>

\* lines 43-52: the file is looked up and normalised
LineMainLoad ==
    /\ pc = "line_main"
    /\ IF csv_dir.files = <<>>
       THEN /\ log' = Append(log, "File not found")
            /\ pc' = "done"
            /\ UNCHANGED <<csv_path, result>>
       ELSE /\ csv_path' = csv_dir.files[1]
            /\ result' = load_and_standardize_log(csv_path')
            /\ IF result' = None
               THEN /\ log' = log \o <<"Error processing", "No data loaded from conn.log.csv">>
                    /\ pc' = "done"
               ELSE IF empty(result')
               THEN /\ log' = Append(log, "No data loaded from conn.log.csv")
                    /\ pc' = "done"
               ELSE /\ log' = log
                    /\ pc' = "line_mkdir"
    /\ UNCHANGED <<csv_dir, all_dfs, df, freq, series, out_path, figure>>

\* lines 55-63: mkdir, then plot_connections_over_time(conn_df, "30S", out_path)
LineMainPlot ==
    /\ pc = "line_mkdir"
    /\ df' = result
    /\ freq' = <<"3","0","S">>
    /\ out_path' = line_png
    /\ pc' = "line_call"
    /\ UNCHANGED <<csv_path, result, csv_dir, all_dfs, series, figure, log>>

NextLineMain == LineMainLoad \/ LineMainPlot \/ PlotConnectionsOverTime

SpecLineMain == InitLineMain /\ [][NextLineMain]_vars

----------------------------------------------------------------------------
(* Claims about load_and_standardize_log (specification Spec) *)

Returned == pc = "returned" /\ result /= None

\* the output records that come from input row i (index label i - 1), in order
RecordsOf(i) == SelectSeq(result.rows, LAMBDA r : r.index = i - 1)

\* the output is grouped by input row, in input order
InRowOrder ==
    \A j, k \in 1..Len(result.rows) :
        j < k => result.rows[j].index <= result.rows[k].index

Label(r) == r.cells["unified_protocol"]

\* the entries of a comma-separated text, stated from the comma positions
Commas(s) == { i \in 1..Len(s) : s[i] = "," }
Cut(s, k) ==
    IF k = 0 THEN 0
    ELSE IF k > Cardinality(Commas(s)) THEN Len(s) + 1
    ELSE CHOOSE i \in Commas(s) : Cardinality({ j \in Commas(s) : j < i }) = k - 1
Entry(s, k) == SubSeq(s, Cut(s, k - 1) + 1, Cut(s, k) - 1)

\* t is e without its leading and trailing whitespace
IsTrimOf(t, e) ==
    /\ \E a \in 1..(Len(e) + 1), b \in 0..Len(e) :
          /\ t = SubSeq(e, a, b)
          /\ \A i \in 1..(a - 1) : e[i] \in Whitespace
          /\ \A i \in (b + 1)..Len(e) : e[i] \in Whitespace
    /\ t /= <<>> => t[1] \notin Whitespace /\ t[Len(t)] \notin Whitespace

\* t is e trimmed and lowercased
IsTrimLowerOf(t, e) ==
    \E u \in { SubSeq(e, a, b) : a \in 1..(Len(e) + 1), b \in 0..Len(e) } :
        /\ IsTrimOf(u, e)
        /\ Len(t) = Len(u)
        /\ \A i \in 1..Len(t) : t[i] = lower_char(u[i])

\* row i of a connection log with a service column is exploded as C1 says
ServiceExploded(i) ==
    LET cell == csv_path.rows[i]["service"]
        recs == RecordsOf(i)
    IN IF cell \in na_values
       THEN /\ Len(recs) = 1
            /\ Label(recs[1]) = Str(unknown_service)
            /\ recs[1].cells["event_count"] = Num(1)
       ELSE /\ Len(recs) = Cardinality(Commas(cell)) + 1
            /\ \A k \in 1..Len(recs) :
                  /\ IsStr(Label(recs[k]))
                  /\ IsTrimLowerOf(Label(recs[k]).str, Entry(cell, k))
                  /\ recs[k].cells["event_count"] = Num(1)

IsConnWithService ==
    csv_path.name = conn_log_csv /\ "service" \in csv_path.columns

\* C1: for conn.log.csv with a service column, a row whose service is a list
\* of N comma-separated entries yields exactly N records, one per entry in
\* list order, labelled with the entry trimmed and lowercased, event_count 1;
\* a row with a missing service yields one record "unknown_service".
C1_ServiceRowsExplode ==
    (Returned /\ IsConnWithService) =>
        /\ InRowOrder
        /\ \A i \in 1..Len(csv_path.rows) : ServiceExploded(i)
        /\ \A k \in 1..Len(result.rows) :
              result.rows[k].index \in 0..(Len(csv_path.rows) - 1)

C1_Witness ==
    /\ Returned /\ IsConnWithService
    /\ Len(csv_path.rows) = 2
    /\ csv_path.rows[1]["service"] = <<"s","s","l",","," ","H","T","T","P"," ">>
    /\ csv_path.rows[2]["service"] = <<"-">>
    /\ Len(result.rows) = 3
    /\ Label(result.rows[2]) = Str(<<"h","t","t","p">>)
    /\ Label(result.rows[3]) = Str(unknown_service)

\* the number a byte cell of the input files stands for (0: missing or not a number)
CellNumber(cell) ==
    CASE cell = <<"1","0","0">> -> 100
      [] cell = <<"7">> -> 7
      [] cell = <<"3","0">> -> 30
      [] cell = <<"5","0","0">> -> 500
      [] OTHER -> 0

SourceRow(r) == csv_path.rows[r.index + 1]

HasOrigAndResp == {"orig_bytes", "resp_bytes"} \subseteq csv_path.columns
HasBodyLen == "response_body_len" \in csv_path.columns
IsFilesWithTotal ==
    csv_path.name = files_log_csv /\ "total_bytes" \in csv_path.columns

\* C2: for files.log.csv with a total_bytes column, without both of
\* orig_bytes/resp_bytes and without response_body_len, every record's
\* total_bytes is the number in the row's total_bytes input cell (0 when
\* missing or not a number).
C2_FilesLogUsesLiteralTotalBytes ==
    (Returned /\ IsFilesWithTotal /\ ~HasOrigAndResp /\ ~HasBodyLen) =>
        \A k \in 1..Len(result.rows) :
            result.rows[k].cells["total_bytes"]
                = Num(CellNumber(SourceRow(result.rows[k])["total_bytes"]))

\* C6: with both orig_bytes and resp_bytes columns, every record's
\* total_bytes is orig_bytes + resp_bytes of its source row, a missing or
\* non-numeric value counting 0, whatever response_body_len or total_bytes
\* columns exist; when no byte rule applies, total_bytes is 0.
C6_OrigPlusRespFirst ==
    Returned =>
        /\ HasOrigAndResp =>
              \A k \in 1..Len(result.rows) :
                  result.rows[k].cells["total_bytes"]
                      = Num(CellNumber(SourceRow(result.rows[k])["orig_bytes"])
                            + CellNumber(SourceRow(result.rows[k])["resp_bytes"]))
        /\ (~HasOrigAndResp /\ ~HasBodyLen /\ ~IsFilesWithTotal) =>
              \A k \in 1..Len(result.rows) :
                  result.rows[k].cells["total_bytes"] = Num(0)

C6_Witness ==
    /\ Returned
    /\ {"orig_bytes", "resp_bytes", "response_body_len", "total_bytes", "service"}
           \subseteq csv_path.columns
    /\ csv_path.name = conn_log_csv
    /\ Len(result.rows) = 2
    /\ SourceRow(result.rows[2])["orig_bytes"] = <<"1","0","0">>
    /\ SourceRow(result.rows[2])["resp_bytes"] = <<"-">>
    /\ SourceRow(result.rows[2])["response_body_len"] = <<"3","0">>
    /\ result.rows[2].cells["total_bytes"] = Num(100)

\* the log type of a file named <type>.log.csv
HasLogType(t) == csv_path.name = t \o DotLogCsv

\* every input row gives exactly one record, labelled l
OneRecordPerRow(L(_)) ==
    /\ Len(result.rows) = Len(csv_path.rows)
    /\ \A k \in 1..Len(result.rows) :
          /\ result.rows[k].index = k - 1
          /\ Label(result.rows[k]) = Str(L(csv_path.rows[k]))

ProtoLabel(row) ==
    IF row["proto"] \in na_values THEN unknown_protocol
    ELSE [i \in 1..Len(row["proto"]) |-> lower_char(row["proto"][i])]

\* C7: unified_protocol comes from the first rule that matches: (1) conn log
\* with a service column: the exploded service list; (2) a proto column: proto
\* lowercased, missing -> "unknown_protocol"; (3) a non-empty log type from
\* the file name: the log type lowercased; (4) "unknown_log_type".
C7_ProtocolRuleOrder ==
    Returned =>
        IF IsConnWithService
        THEN InRowOrder /\ \A i \in 1..Len(csv_path.rows) : ServiceExploded(i)
        ELSE IF "proto" \in csv_path.columns
        THEN OneRecordPerRow(ProtoLabel)
        ELSE IF HasLogType(<<>>)
        THEN OneRecordPerRow(LAMBDA row : unknown_log_type)
        ELSE /\ HasLogType(<<"c","o","n","n">>) =>
                    OneRecordPerRow(LAMBDA row : <<"c","o","n","n">>)
             /\ HasLogType(<<"f","i","l","e","s">>) =>
                    OneRecordPerRow(LAMBDA row : <<"f","i","l","e","s">>)
             /\ HasLogType(<<"D","N","S">>) =>
                    OneRecordPerRow(LAMBDA row : <<"d","n","s">>)
             /\ \E t \in { <<"c","o","n","n">>, <<"f","i","l","e","s">>, <<"D","N","S">> } :
                    HasLogType(t)

\* a non-connection file with service and proto columns uses proto
C7_Witness ==
    /\ Returned
    /\ csv_path.name = dns_log_csv
    /\ {"service", "proto"} \subseteq csv_path.columns
    /\ Len(csv_path.rows) = 2
    /\ csv_path.rows[1]["service"] = <<"s","m","b",",">>
    /\ csv_path.rows[1]["proto"] = <<"T","C","P">>
    /\ csv_path.rows[2]["proto"] = <<"-">>
    /\ Len(result.rows) = 2
    /\ Label(result.rows[1]) = Str(<<"t","c","p">>)
    /\ Label(result.rows[2]) = Str(unknown_protocol)

----------------------------------------------------------------------------
(* Claims about plot_protocol_pie (specification SpecPie) *)

Aggregated == pc \in {"pie_render", "pie_save", "pie_show", "done", "raised"}

ExcludedLabels ==
    { tcp, udp, icmp, arp, unknown_transport, unknown_protocol,
      unknown_service, unknown_log_type }

IsExcluded(label) == IsStr(label) /\ label.str \in ExcludedLabels

\* the summed event_count of the records labelled l (every event_count is 1)
CountOf(l) ==
    Cardinality({ i \in 1..Len(df.rows) : value_at(df, i, "unified_protocol") = l })

KeptRecords ==
    { i \in 1..Len(df.rows) : ~IsExcluded(value_at(df, i, "unified_protocol")) }

KeptLabels == { value_at(df, i, "unified_protocol") : i \in KeptRecords }

PlottedTotal == sum_values(series)

\* C3: no record labelled tcp, udp, icmp, arp, unknown_transport,
\* unknown_protocol, unknown_service or unknown_log_type contributes to a
\* slice, named or "other": the plotted total is the summed event_count of
\* the other records, however large the excluded counts.
C3_ExcludedNeverPlotted ==
    Aggregated =>
        /\ \A k \in 1..Len(series) : ~IsExcluded(series[k].label)
        /\ \A k \in 1..Len(series) :
              series[k].label /= Str(other) => series[k].value = CountOf(series[k].label)
        /\ PlottedTotal = Cardinality(KeptRecords)

C3_Witness ==
    /\ Aggregated
    /\ CountOf(Str(arp)) = Dominant
    /\ Cardinality(KeptRecords) = 3
    /\ PlottedTotal = 3

NonIncreasing ==
    \A j, k \in 1..Len(series) :
        (j < k /\ k <= top_n) => series[j].value >= series[k].value

\* C4: with at most 8 protocols left the slices are those protocols with
\* their summed counts, largest first; with more than 8 there are 9 slices:
\* the 8 largest, largest first, then "other" with the sum of all the rest.
C4_TopEightPlusOther ==
    Aggregated =>
        LET named == 1..(IF Len(series) > top_n THEN top_n ELSE Len(series))
            top == { series[k].label : k \in named }
        IN /\ NonIncreasing
           /\ \A k \in named : series[k].label \in KeptLabels
                               /\ series[k].value = CountOf(series[k].label)
           /\ \A j, k \in named : j /= k => series[j].label /= series[k].label
           /\ IF Cardinality(KeptLabels) <= 8
              THEN Len(series) = Cardinality(KeptLabels)
              ELSE /\ Len(series) = 9
                   /\ \A l \in KeptLabels \ top :
                         \A k \in named : CountOf(l) <= series[k].value
                   /\ series[9].label = Str(other)
                   /\ series[9].value
                         = Cardinality({ i \in KeptRecords :
                               value_at(df, i, "unified_protocol") \notin top })

\* nine protocols, two of them with one record each: one is the eighth slice,
\* the other is the rest
C4_Witness ==
    /\ Aggregated
    /\ Cardinality(KeptLabels) = 9
    /\ Len(series) = 9
    /\ series[1].value = 7
    /\ series[8] = [label |-> Str(AppProtocols[2]), value |-> 1]
    /\ series[9] = [label |-> Str(other), value |-> 1]

----------------------------------------------------------------------------
(* Claims about pie_chart.main and load_all_csvs (specification SpecPieMain) *)

Cells(rows) == [i \in 1..Len(rows) |-> rows[i].cells]

\* the records of the files that normalise, in discovery order
RECURSIVE RecordsOfFiles(_)
RecordsOfFiles(files) ==
    IF files = <<>> THEN <<>>
    ELSE (IF load_and_standardize_log(Head(files)) = None THEN <<>>
          ELSE Cells(load_and_standardize_log(Head(files)).rows))
         \o RecordsOfFiles(Tail(files))

FailedFiles ==
    { i \in 1..Len(csv_dir.files) : load_and_standardize_log(csv_dir.files[i]) = None }

Combined == pc \in {"mkdir", "pie_call"} \/ Aggregated

\* C8: the combined dataset is the concatenation, in discovery order and
\* with each file's row order, of the records of the files that normalised;
\* a failed file adds nothing, is read once and does not stop the files
\* after it; with no successful file the dataset is empty with the four
\* standard columns.
C8_CombinedIsConcatenation ==
    /\ pc = "load_all" =>
          /\ Cells(concat_rows(all_dfs))
                 = RecordsOfFiles(SubSeq(csv_dir.files, 1, csv_dir.next - 1))
          /\ Len(log) = Cardinality({ i \in FailedFiles : i < csv_dir.next })
    /\ Combined =>
          /\ Cells(df.rows) = RecordsOfFiles(csv_dir.files)
          /\ \A i \in 1..Len(df.rows) : df.rows[i].index = i - 1
          /\ df.columns = StandardColumns
          /\ Len(log) = Cardinality(FailedFiles)

C8_Witness ==
    /\ pc = "mkdir"
    /\ Len(csv_dir.files) = 3
    /\ csv_dir.files[1].name = dns_log_csv
    /\ csv_dir.files[2].name = files_log_csv
    /\ csv_dir.files[3].name = conn_log_csv
    /\ FailedFiles = {2}
    /\ Len(df.rows) = 5
    /\ df.rows[2].cells["unified_protocol"] = Str(<<"d","n","s">>)
    /\ df.rows[3].cells["unified_protocol"] = Str(<<"s","s","l">>)

\* C5: when the data to plot is empty (pie: nothing left after the
\* exclusion; line: no record with a valid datetime) no chart is rendered
\* and no image is written.
C5_NoChartWhenEmpty ==
    figure /= {} =>
        IF freq = Idle
        THEN \E i \in 1..Len(df.rows) : ~IsExcluded(value_at(df, i, "unified_protocol"))
        ELSE \E i \in 1..Len(df.rows) : value_at(df, i, "datetime") /= NaT

\* C10: a failure at any step of a report is caught inside the report: no
\* exception escapes main.
C10_NoExceptionEscapes == pc /= "raised"

----------------------------------------------------------------------------
(* Claims about plot_connections_over_time (specification SpecLine) *)

Resampled ==
    \/ pc \in {"line_render", "line_save", "line_show"}
    \/ pc \in {"done", "raised"} /\ figure /= {}

WidthOf(f) == CASE f = <<"3","0","S">> -> 30 [] f = <<"7","S">> -> 7

\* after line 12 df holds the records with a valid datetime
TimeOf(i) == value_at(df, i, "datetime").ts
Earliest == CHOOSE t \in { TimeOf(i) : i \in 1..Len(df.rows) } :
                \A i \in 1..Len(df.rows) : t <= TimeOf(i)
Latest == CHOOSE t \in { TimeOf(i) : i \in 1..Len(df.rows) } :
              \A i \in 1..Len(df.rows) : t >= TimeOf(i)

BucketStart(k) == series[k].label.ts

\* consecutive left-closed buckets of width w from the one holding the
\* earliest datetime to the one holding the latest, each valued with the
\* number of records in it (0 when there is none)
DenseBuckets(w) ==
    /\ Len(series) >= 1
    /\ \A k \in 1..(Len(series) - 1) : BucketStart(k + 1) = BucketStart(k) + w
    /\ BucketStart(1) <= Earliest /\ Earliest < BucketStart(1) + w
    /\ BucketStart(Len(series)) <= Latest /\ Latest < BucketStart(Len(series)) + w
    /\ \A k \in 1..Len(series) :
          series[k].value
              = Cardinality({ i \in 1..Len(df.rows) :
                    BucketStart(k) <= TimeOf(i) /\ TimeOf(i) < BucketStart(k) + w })

\* C9 as stated: the buckets are [k*w, (k+1)*w), aligned to multiples of w
C9_BucketsAtMultiplesOfWidth ==
    Resampled =>
        /\ DenseBuckets(WidthOf(freq))
        /\ \A k \in 1..Len(series) : BucketStart(k) % WidthOf(freq) = 0

\* C9 amended: the buckets are aligned to multiples of w counted from
\* midnight of the day of the earliest valid datetime
C9_BucketsFromMidnightOfFirstDay ==
    Resampled =>
        /\ DenseBuckets(WidthOf(freq))
        /\ \A k \in 1..Len(series) :
              (BucketStart(k) - (Earliest - (Earliest % (24 * 60 * 60)))) % WidthOf(freq) = 0

\* the example of the claim one day later, in 7-second buckets with a gap
C9_Witness ==
    /\ Resampled
    /\ freq = <<"7","S">>
    /\ Len(df.rows) = 3
    /\ Earliest = (24 * 60 * 60) + 5 /\ Latest = (24 * 60 * 60) + 35
    /\ Len(series) = 6
    /\ series[1] = [label |-> Stamp((24 * 60 * 60)), value |-> 1]
    /\ series[2].value = 0
    /\ series[6].value = 2

====
